---- MODULE Spec2Model ----
(***************************************************************************)
(* Model of asaphus.cpp: the two-player box game.                          *)
(*                                                                         *)
(* Numbers.  The program computes in double.  The model computes in exact  *)
(* rational arithmetic on scaled integers:                                 *)
(*   - a box weight w is stored as WeightScale * w (tenths), because the   *)
(*     initial weights are 0.0, 0.1, 0.2, 0.3 and tokens are integers;     *)
(*   - a score s is stored as ScoreScale * s (1/36ths), because a green    *)
(*     score is (sum / n)^2 with n in 1..3 and a blue score is an integer. *)
(* Token weights (uint32_t converted to double, which is exact) are plain  *)
(* naturals.  Rounding of double is not modelled; within the bounds below  *)
(* all sums are far below 2^53.                                            *)
(***************************************************************************)
EXTENDS Integers, Sequences, FiniteSets, TLC

\* Bounds of the model
MaxLen == 5
MaxTail == 3
MaxWeight == 3
MaxTurnLen == 2
MaxInitWeight == 3
MaxTwiceLen == 4
MaxLiveLen == 3

\* Scaling of the fixed-point representation
WeightScale == 10
ScoreScale == 36

\* The two inputs of the test cases
Fib4 == <<1, 1, 2, 3>>
Fib8 == <<1, 1, 2, 3, 5, 8, 13, 21>>

VARIABLES input_weights, i, boxes, players, pc, result, log, call, first

vars == <<input_weights, i, boxes, players, pc, result, log, call, first>>

----------------------------------------------------------------------------
\* Helpers

RECURSIVE accumulate(_)
accumulate(dq) ==
    IF dq = <<>> THEN 0 ELSE Head(dq) + accumulate(Tail(dq))

emplace_front(dq, w) == <<w>> \o dq

front(dq) == dq[1]

back(dq) == dq[Len(dq)]

----------------------------------------------------------------------------
\* Box

\* Box::Box(initial_weight); `absorbed' is a history variable: every weight
\* passed to one of the two calculateScore functions of this box, in order.
Box(initial_weight) ==
    [weight_ |-> initial_weight, absorbed_weights_ |-> <<>>, absorbed |-> <<>>]

\* Box::operator<
BoxLess_greater(a, b) == a.weight_ > b.weight_

BoxLess(a, b) == a.weight_ < b.weight_

\* the window of a green box after absorbing: emplace_back, then pop_front
\* when more than 3 are held
greenWindow_noEvict(dq, weight) == Append(dq, weight)

greenWindow_evictNewest(dq, weight) ==
    LET d == Append(dq, weight)
    IN  IF Len(d) > 3 THEN SubSeq(d, 1, Len(d) - 1) ELSE d

greenWindow(dq, weight) ==
    LET d == Append(dq, weight)
    IN  IF Len(d) > 3 THEN Tail(d) ELSE d

\* std::pow(accumulate(dq) / dq.size(), 2), scaled by ScoreScale
squareOfMean_noDivide(dq) ==
    ScoreScale * accumulate(dq) * accumulate(dq)

squareOfMean(dq) ==
    (ScoreScale \div (Len(dq) * Len(dq))) * accumulate(dq) * accumulate(dq)

\* this->weight_ += weight
addWeight_none(w_, weight) == w_

addWeight_assign(w_, weight) == WeightScale * weight

addWeight(w_, weight) == w_ + WeightScale * weight

calculateScoreForGreenBox(box, weight) ==
    LET dq == greenWindow(box.absorbed_weights_, weight)
    IN  [box   |-> [weight_           |-> addWeight(box.weight_, weight),
                    absorbed_weights_ |-> dq,
                    absorbed          |-> Append(box.absorbed, weight)],
         score |-> squareOfMean(dq)]

\* the buffer of a blue box after absorbing
blueBuffer_keepAll(dq, weight) ==
    IF dq # <<>>
    THEN IF front(dq) > weight THEN emplace_front(dq, weight)
         ELSE Append(dq, weight)
    ELSE Append(dq, weight)

blueBuffer_nonStrict(dq, weight) ==
    IF dq # <<>>
    THEN IF front(dq) >= weight THEN emplace_front(dq, weight)
         ELSE IF back(dq) <= weight THEN Append(dq, weight)
         ELSE dq
    ELSE Append(dq, weight)

blueBuffer(dq, weight) ==
    IF dq # <<>>
    THEN IF front(dq) > weight THEN emplace_front(dq, weight)
         ELSE IF back(dq) < weight THEN Append(dq, weight)
         ELSE dq
    ELSE Append(dq, weight)

\* ((sum) * (sum + 1)) / 2 + largest, scaled by ScoreScale
pairing_addSmallest(smallest, largest) ==
    LET sum == smallest + largest
    IN  ScoreScale * (((sum * (sum + 1)) \div 2) + smallest)

pairing(smallest, largest) ==
    LET sum == smallest + largest
    IN  ScoreScale * (((sum * (sum + 1)) \div 2) + largest)

calculateScoreForBlueBox(box, weight) ==
    LET dq == blueBuffer(box.absorbed_weights_, weight)
    IN  [box   |-> [weight_           |-> addWeight(box.weight_, weight),
                    absorbed_weights_ |-> dq,
                    absorbed          |-> Append(box.absorbed, weight)],
         score |-> pairing(front(dq), back(dq))]

----------------------------------------------------------------------------
\* Player

\* std::min_element with the comparator *a < *b: the scan keeps the first
\* element that no later element is less than
RECURSIVE min_scan(_, _, _)
min_scan(bxs, smallest, it) ==
    IF it > Len(bxs) THEN smallest
    ELSE min_scan(bxs, IF BoxLess(bxs[it], bxs[smallest]) THEN it ELSE smallest,
                  it + 1)

RECURSIVE min_scan_last(_, _, _)
min_scan_last(bxs, smallest, it) ==
    IF it > Len(bxs) THEN smallest
    ELSE min_scan_last(bxs,
                       IF ~BoxLess(bxs[smallest], bxs[it]) THEN it ELSE smallest,
                       it + 1)

min_element_last(bxs) == min_scan_last(bxs, 1, 2)

min_element(bxs) == min_scan(bxs, 1, 2)

\* score_ += ...
addScore_assign(score_, s) == s

addScore(score_, s) == score_ + s

\* Player::takeTurn; position min_box is 1-based, index is 0-based as in the
\* source
takeTurn_firstBox(score_, input_weight, bxs) ==
    LET min_box == min_element(bxs)
        index   == min_box - 1
        r == IF index = 0 \/ index = 1
             THEN calculateScoreForGreenBox(bxs[1], input_weight)
             ELSE calculateScoreForBlueBox(bxs[1], input_weight)
    IN  [score_ |-> addScore(score_, r.score),
         boxes  |-> [bxs EXCEPT ![1] = r.box],
         index  |-> index,
         gain   |-> r.score]

takeTurn(score_, input_weight, bxs) ==
    LET min_box == min_element(bxs)
        index   == min_box - 1
        r == IF index = 0 \/ index = 1
             THEN calculateScoreForGreenBox(bxs[min_box], input_weight)
             ELSE calculateScoreForBlueBox(bxs[min_box], input_weight)
    IN  [score_ |-> addScore(score_, r.score),
         boxes  |-> [bxs EXCEPT ![min_box] = r.box],
         index  |-> index,
         gain   |-> r.score]

----------------------------------------------------------------------------
\* play

\* the four boxes play constructs
makeBoxes_shifted ==
    <<Box(0), Box(1), Box(2), Box(2)>>

makeBoxes ==
    <<Box(0), Box(1), Box(2), Box(3)>>

\* Player player_A, player_B: score_ = 0.0
makePlayers == [p \in {"A", "B"} |-> 0]

\* boxes, player_A and player_B are automatic variables of play: every call
\* constructs them anew, whatever the call before left in them
enterPlay_static(left) ==
    [boxes |-> makeBoxes, players |-> left.players]

enterPlay(left) ==
    [boxes |-> makeBoxes, players |-> makePlayers]

\* the loop condition i < input_weights.size()
loopCond_sizeMinusOne(k, size) == k < size - 1

loopCond(k, size) == k < size

\* i % 2 == 0 selects player_A
actingPlayer_swapped(k) == IF k % 2 = 0 THEN "B" ELSE "A"

actingPlayer(k) == IF k % 2 = 0 THEN "A" ELSE "B"

\* the argument vectors play is called with
BoundedInputs(len) == UNION {[1..n -> 0..MaxWeight] : n \in 0..len}

\* longer argument vectors: three equal tokens, which go to the first three
\* boxes one each, and then any tokens
Prefilled ==
    {<<h, h, h>> \o t : h \in 0..MaxWeight, t \in [1..MaxTail -> 0..MaxWeight]}

Inputs == BoundedInputs(MaxLen) \cup Prefilled \cup {Fib4, Fib8}

\* state of play on entering the loop
Init ==
    /\ input_weights \in Inputs
    /\ i = 0
    /\ boxes = makeBoxes
    /\ players = makePlayers
    /\ pc = "loop"
    /\ result = <<>>
    /\ log = <<>>
    /\ call = 1
    /\ first = [result |-> <<>>, log |-> <<>>]

\* one iteration of the loop of play
Turn ==
    /\ pc = "loop"
    /\ loopCond(i, Len(input_weights))
    /\ LET p == actingPlayer(i)
           r == takeTurn(players[p], input_weights[i + 1], boxes)
       IN  /\ players' = [players EXCEPT ![p] = r.score_]
           /\ boxes' = r.boxes
           /\ log' = Append(log, [player |-> p, index |-> r.index,
                                  input |-> input_weights[i + 1],
                                  score |-> r.gain,
                                  boxes |-> r.boxes])
    /\ i' = i + 1
    /\ UNCHANGED <<input_weights, pc, result, call, first>>

\* the loop ends and play returns the pair of scores
Return ==
    /\ pc = "loop"
    /\ ~loopCond(i, Len(input_weights))
    /\ pc' = "done"
    /\ result' = <<players["A"], players["B"]>>
    /\ UNCHANGED <<input_weights, i, boxes, players, log, call, first>>

Next == Turn \/ Return

Spec == Init /\ [][Next]_vars

\* Player::takeTurn as a unit: called on a vector of four boxes of any
\* initial weights, equal ones included
InitTurn ==
    /\ input_weights \in BoundedInputs(MaxTurnLen)
    /\ i = 0
    /\ boxes \in [1..4 -> {Box(w) : w \in 0..MaxInitWeight}]
    /\ players = makePlayers
    /\ pc = "loop"
    /\ result = <<>>
    /\ log = <<>>
    /\ call = 1
    /\ first = [result |-> <<>>, log |-> <<>>]

SpecTurn == InitTurn /\ [][Next]_vars

\* play under weak fairness: the loop is sequential code that nothing
\* suspends, so a step that can be taken is taken
InitLive ==
    /\ input_weights \in BoundedInputs(MaxLiveLen) \cup {Fib4, Fib8}
    /\ i = 0
    /\ boxes = makeBoxes
    /\ players = makePlayers
    /\ pc = "loop"
    /\ result = <<>>
    /\ log = <<>>
    /\ call = 1
    /\ first = [result |-> <<>>, log |-> <<>>]

FairSpec == InitLive /\ [][Next]_vars /\ WF_vars(Next)

\* a caller that calls play a second time on the same input_weights, after
\* the first call has returned; `first' keeps what the first call returned
\* and the turns it took
PlayAgain ==
    /\ pc = "done"
    /\ call = 1
    /\ call' = 2
    /\ first' = [result |-> result, log |-> log]
    /\ LET e == enterPlay([boxes |-> boxes, players |-> players])
       IN  /\ boxes' = e.boxes
           /\ players' = e.players
    /\ i' = 0
    /\ pc' = "loop"
    /\ result' = <<>>
    /\ log' = <<>>
    /\ UNCHANGED input_weights

InitTwice ==
    /\ input_weights \in BoundedInputs(MaxTwiceLen) \cup {Fib4, Fib8}
    /\ i = 0
    /\ boxes = makeBoxes
    /\ players = makePlayers
    /\ pc = "loop"
    /\ result = <<>>
    /\ log = <<>>
    /\ call = 1
    /\ first = [result |-> <<>>, log |-> <<>>]

NextTwice == Turn \/ Return \/ PlayAgain

SpecTwice == InitTwice /\ [][NextTwice]_vars

----------------------------------------------------------------------------
\* Shorthands for the properties

Last == log[Len(log)]

\* the box the last turn selected, as it is now
LastBox == boxes[Last.index + 1]

IsTurn == i' = i + 1

\* the 0-based index the turn being taken selects
Selected == log'[Len(log')].index + 1

\* the weights a box has absorbed, as a set
Range(h) == {h[t] : t \in 1..Len(h)}

SetMin(S) == CHOOSE x \in S : \A y \in S : x <= y

SetMax(S) == CHOOSE x \in S : \A y \in S : x >= y

\* the sum of the first k inputs
RECURSIVE SumInputs(_)
SumInputs(k) == IF k = 0 THEN 0 ELSE input_weights[k] + SumInputs(k - 1)

\* the inputs of the first k turns that went to the box at 0-based index b
RECURSIVE InputsTo(_, _)
InputsTo(b, k) ==
    IF k = 0 THEN <<>>
    ELSE IF log[k].index = b THEN Append(InputsTo(b, k - 1), log[k].input)
         ELSE InputsTo(b, k - 1)

\* the scores of the first k turns credited to player p, added up
RECURSIVE Credited(_, _)
Credited(p, k) ==
    IF k = 0 THEN 0
    ELSE (IF log[k].player = p THEN log[k].score ELSE 0) + Credited(p, k - 1)

----------------------------------------------------------------------------
\* C1: play on [1,1,2,3,5,8,13,21] returns (155.0, 366.25).
C1_Fib8Scores ==
    (pc = "done" /\ input_weights = Fib8)
        => result = <<155 * ScoreScale, 13185>>

C1_Witness ==
    /\ pc = "done"
    /\ input_weights = Fib8
    /\ result = <<5580, 13185>>
    /\ Len(log) = 8

\* C2: play on [1,1,2,3] returns (13.0, 25.0).
C2_Fib4Scores ==
    (pc = "done" /\ input_weights = Fib4)
        => result = <<13 * ScoreScale, 25 * ScoreScale>>

C2_Witness ==
    /\ pc = "done"
    /\ input_weights = Fib4
    /\ result = <<468, 900>>
    /\ Len(log) = 4

\* C3: every turn selects a box whose weight is less than or equal to the
\* weight of every box, and among several boxes of that minimum weight the one
\* at the earliest position.
C3_FirstMinimum ==
    [][IsTurn =>
          /\ \A b \in 1..Len(boxes) :
                boxes[Selected].weight_ <= boxes[b].weight_
          /\ \A b \in 1..(Selected - 1) :
                boxes[b].weight_ > boxes[Selected].weight_]_vars

\* a turn with token 0 that selected the second box, which still weighs the
\* same as the third and less than the first: the tie was between positions
\* 1 and 2 (0-based), and position 1 was taken
C3_Witness ==
    /\ Len(log) = 1
    /\ Last.input = 0
    /\ Last.index = 1
    /\ boxes[2].weight_ = boxes[3].weight_
    /\ boxes[1].weight_ > boxes[2].weight_
    /\ Len(boxes[2].absorbed) = 1

\* C4: the input at 0-based position t is played by A when t is even and by B
\* when t is odd, inputs are taken in order, A first; the score of each
\* player is what the turns at its positions returned.
C4_Alternation ==
    /\ Len(log) = i
    /\ \A t \in 1..Len(log) :
          /\ log[t].player = (IF (t - 1) % 2 = 0 THEN "A" ELSE "B")
          /\ log[t].input = input_weights[t]
    /\ Len(log) >= 1 => log[1].player = "A"
    /\ \A p \in {"A", "B"} : players[p] = Credited(p, Len(log))
    /\ \A p \in {"A", "B"} :
          players[p] > 0 =>
              \E t \in 1..Len(log) :
                  (t - 1) % 2 = (IF p = "A" THEN 0 ELSE 1) /\ log[t].score > 0

C4_Witness ==
    /\ Len(log) >= 4
    /\ players["A"] > 0
    /\ players["B"] > 0
    /\ players["A"] # players["B"]

\* C5: the score of the k-th absorption of a green box is the square of the
\* mean of all k absorbed weights when k <= 3 and of the 3 most recently
\* absorbed weights when k >= 4.
C5_GreenScore ==
    (Len(log) > 0 /\ Last.index \in {0, 1}) =>
        LET h == LastBox.absorbed
            k == Len(h)
            n == IF k <= 3 THEN k ELSE 3
            S == accumulate(SubSeq(h, k - n + 1, k))
        IN  /\ k >= 1
            /\ h[k] = Last.input
            /\ Last.score * n * n = ScoreScale * S * S

\* a fourth absorption of a green box that evicted a weight different from
\* the one that came in
C5_Witness ==
    /\ Len(log) > 0
    /\ Last.index \in {0, 1}
    /\ Len(LastBox.absorbed) >= 4
    /\ LastBox.absorbed[Len(LastBox.absorbed) - 3] # Last.input
    /\ Last.score > 0

\* C6: the score of every absorption of a blue box is
\* (lo+hi)*(lo+hi+1)/2 + hi for lo, hi the smallest and largest weight the
\* box has absorbed so far; a box that absorbed exactly 0 and 1 scores 2.
C6_BlueScore ==
    (Len(log) > 0 /\ Last.index \in {2, 3}) =>
        LET h  == LastBox.absorbed
            lo == SetMin(Range(h))
            hi == SetMax(Range(h))
        IN  /\ h[Len(h)] = Last.input
            /\ Last.score * 2 =
                   ScoreScale * ((lo + hi) * (lo + hi + 1) + 2 * hi)
            /\ Range(h) = {0, 1} => Last.score = 2 * ScoreScale

C6_Witness ==
    /\ Len(log) > 0
    /\ Last.index \in {2, 3}
    /\ Range(LastBox.absorbed) = {0, 1}
    /\ Last.score = 72

\* C7 as stated: on every turn the weight of the absorbing box is strictly
\* greater after the absorption than before.
C7_StrictIncrease ==
    [][IsTurn => boxes'[Selected].weight_ > boxes[Selected].weight_]_vars

\* C7 as amended: on every turn the weight of the absorbing box grows by the
\* token weight: it is never smaller than before, strictly greater for a
\* positive token and unchanged for the token 0.
C7_IncreaseByToken ==
    [][IsTurn =>
          LET w == input_weights[i + 1]
          IN  /\ boxes'[Selected].weight_ >= boxes[Selected].weight_
              /\ boxes'[Selected].weight_ =
                     boxes[Selected].weight_ + WeightScale * w
              /\ w > 0 => boxes'[Selected].weight_ > boxes[Selected].weight_
              /\ w = 0 => boxes'[Selected].weight_ = boxes[Selected].weight_]_vars

\* a box that absorbed the token 0 and then a positive token
C7_Witness ==
    /\ Len(log) >= 2
    /\ Last.index = 0
    /\ LastBox.absorbed = <<0, 2>>
    /\ LastBox.weight_ = 20

\* C8: each player's score is >= 0 in every state and no turn lowers either
\* player's score.
C8_ScoresMonotone ==
    /\ [](\A p \in {"A", "B"} : players[p] >= 0)
    /\ [][\A p \in {"A", "B"} : players'[p] >= players[p]]_vars

\* a player whose later turn returned less than an earlier one
C8_Witness ==
    /\ Len(log) >= 3
    /\ log[3].score < log[1].score
    /\ players["A"] = log[1].score + log[3].score
    /\ players["B"] > 0

\* C9: after k turns exactly the first k inputs have been absorbed, each by
\* one box on one turn credited to one player: the absorptions of the four
\* boxes number k and the four weights add up to 0.6 plus the first k inputs.
C9_EachInputOnce ==
    /\ i \in 0..Len(input_weights)
    /\ Len(log) = i
    /\ Len(boxes) = 4
    /\ Len(boxes[1].absorbed) + Len(boxes[2].absorbed)
         + Len(boxes[3].absorbed) + Len(boxes[4].absorbed) = i
    /\ boxes[1].weight_ + boxes[2].weight_ + boxes[3].weight_
         + boxes[4].weight_ = 6 + WeightScale * SumInputs(i)
    /\ \A b \in 1..4 : boxes[b].absorbed = InputsTo(b - 1, i)
    /\ \A t \in 1..i : /\ log[t].input = input_weights[t]
                       /\ log[t].index \in 0..3
                       /\ log[t].player \in {"A", "B"}

C9_Witness ==
    /\ pc = "done"
    /\ i = Len(input_weights)
    /\ i >= 5
    /\ \A b \in 1..4 : Len(boxes[b].absorbed) >= 1
    /\ Len(boxes[1].absorbed) >= 2

\* C10: play on the empty input takes no turn and returns (0.0, 0.0), with
\* the four boxes at their initial weights 0.0, 0.1, 0.2, 0.3.
C10_EmptyInput ==
    (pc = "done" /\ input_weights = <<>>) =>
        /\ result = <<0, 0>>
        /\ i = 0
        /\ log = <<>>
        /\ <<boxes[1].weight_, boxes[2].weight_,
             boxes[3].weight_, boxes[4].weight_>> = <<0, 1, 2, 3>>
        /\ \A b \in 1..4 : boxes[b].absorbed = <<>>

C10_Witness ==
    /\ pc = "done"
    /\ input_weights = <<>>
    /\ result = <<0, 0>>
    /\ players = makePlayers

----------------------------------------------------------------------------
\* C11: two runs of play on the same input, each from freshly constructed
\* boxes and players, pass through the same box states turn by turn and
\* return the same pair of scores.
C11_SameRunTwice ==
    call = 2 =>
        /\ Len(log) <= Len(first.log)
        /\ \A t \in 1..Len(log) :
              /\ log[t].boxes = first.log[t].boxes
              /\ log[t] = first.log[t]
        /\ Len(log) = 0 => boxes = makeBoxes
        /\ pc = "done" => /\ result = first.result
                          /\ Len(log) = Len(first.log)

\* the second of two runs has returned, after four turns in which both
\* players scored
C11_Witness ==
    /\ call = 2
    /\ pc = "done"
    /\ Len(first.log) = 4
    /\ Len(log) = 4
    /\ first.result[1] > 0
    /\ first.result[2] > 0
    /\ result = first.result

\* C12: play on every finite input eventually finishes, after exactly as
\* many turns as there are inputs.
C12_Terminates ==
    <>(/\ pc = "done"
       /\ i = Len(input_weights)
       /\ Len(log) = Len(input_weights))

\* play has returned from the eight turns of the longer test case
C12_Witness ==
    /\ pc = "done"
    /\ Len(input_weights) = 8
    /\ Len(log) = 8
    /\ i = 8

----------------------------------------------------------------------------
\* Shorthands for the properties of the boxes

\* positions of the green and of the blue boxes in the vector
Green == {1, 2}

Blue == {3, 4}

\* the fields of a box the program stores
Stored(box) == <<box.weight_, box.absorbed_weights_>>

\* the positions t of h where h[t] is the first weight or smaller than all
\* or larger than all weights before it
Records(h) ==
    {t \in 1..Len(h) :
        \/ t = 1
        \/ \A u \in 1..(t - 1) : h[t] < h[u]
        \/ \A u \in 1..(t - 1) : h[t] > h[u]}

\* the score the latest turn on the box at 0-based index b returned
PrevScore(b) ==
    LET ts == {t \in 1..Len(log) : log[t].index = b}
    IN  log[SetMax(ts)].score

\* the boxes as they were before the last turn
BoxesBeforeLast ==
    IF Len(log) = 1 THEN makeBoxes ELSE log[Len(log) - 1].boxes

----------------------------------------------------------------------------
\* C13 as stated: the stored history of a blue box holds at most two values,
\* the current minimum and the current maximum.
C13_AtMostTwo ==
    \A b \in Blue :
        /\ Len(boxes[b].absorbed_weights_) <= 2
        /\ boxes[b].absorbed # <<>> =>
               Range(boxes[b].absorbed_weights_)
                   = {SetMin(Range(boxes[b].absorbed)),
                      SetMax(Range(boxes[b].absorbed))}

\* C13 as amended: the stored history of a blue box holds the current minimum
\* (first) and the current maximum (last) and besides them every weight that
\* was a new minimum or a new maximum when it was absorbed, each once; it is
\* empty before the first absorption and can hold more than two values.
C13_MinMaxAndRecords ==
    \A b \in Blue :
        LET h  == boxes[b].absorbed
            dq == boxes[b].absorbed_weights_
        IN  /\ h = <<>> <=> dq = <<>>
            /\ h # <<>> =>
                  /\ front(dq) = SetMin(Range(h))
                  /\ back(dq) = SetMax(Range(h))
                  /\ Range(dq) = {h[t] : t \in Records(h)}
                  /\ Len(dq) = Cardinality(Records(h))
                  /\ Len(dq) <= Len(h)

\* a blue box that stores three values
C13_Witness ==
    \E b \in Blue :
        /\ Len(boxes[b].absorbed_weights_) = 3
        /\ Len(boxes[b].absorbed) = 3

\* C14: a blue box that has absorbed something and absorbs v with
\* minimum <= v <= maximum keeps its stored history, returns the score of its
\* previous absorption, and its weight grows by v.
C14_BlueBetween ==
    [][(/\ IsTurn
        /\ Selected \in Blue
        /\ boxes[Selected].absorbed # <<>>
        /\ SetMin(Range(boxes[Selected].absorbed)) <= input_weights[i + 1]
        /\ input_weights[i + 1] <= SetMax(Range(boxes[Selected].absorbed)))
       => /\ boxes'[Selected].absorbed_weights_
                = boxes[Selected].absorbed_weights_
          /\ log'[Len(log')].score = PrevScore(Selected - 1)
          /\ boxes'[Selected].weight_
                = boxes[Selected].weight_ + WeightScale * input_weights[i + 1]]_vars

\* a blue box took a weight strictly between its minimum and maximum
C14_Witness ==
    /\ Len(log) >= 3
    /\ Last.index \in {2, 3}
    /\ Len(LastBox.absorbed) = 3
    /\ LastBox.absorbed[1] < Last.input
    /\ Last.input < LastBox.absorbed[2]
    /\ LastBox.absorbed_weights_ = <<LastBox.absorbed[1], LastBox.absorbed[2]>>
    /\ Last.score = pairing(LastBox.absorbed[1], LastBox.absorbed[2])

\* C15: when a green box computes its mean its window holds 1 to 3 weights,
\* and between turns the window holds at most 3 weights, the most recently
\* absorbed ones in the order of absorption.
C15_GreenWindow ==
    \A b \in Green :
        LET h  == boxes[b].absorbed
            dq == boxes[b].absorbed_weights_
            n  == IF Len(h) <= 3 THEN Len(h) ELSE 3
        IN  /\ Len(dq) <= 3
            /\ dq = SubSeq(h, Len(h) - n + 1, Len(h))
            /\ h # <<>> => Len(dq) \in 1..3
            /\ (Len(log) > 0 /\ Last.index = b - 1) => Len(dq) \in 1..3

\* a green box absorbed five weights, the window holds the last three and
\* they differ from the first three
C15_Witness ==
    \E b \in Green :
        /\ Len(boxes[b].absorbed) = 5
        /\ boxes[b].absorbed_weights_ = SubSeq(boxes[b].absorbed, 3, 5)
        /\ SubSeq(boxes[b].absorbed, 1, 3) # SubSeq(boxes[b].absorbed, 3, 5)
        /\ boxes[b].absorbed[5] > boxes[b].absorbed[4]

\* C16: the buffer of a blue box that has absorbed something has the minimum
\* of all absorbed weights first and the maximum last and is strictly
\* increasing from front to back.
C16_BlueBufferOrdered ==
    \A b \in Blue :
        LET h  == boxes[b].absorbed
            dq == boxes[b].absorbed_weights_
        IN  h # <<>> =>
               /\ dq # <<>>
               /\ \A x \in Range(h) : dq[1] <= x /\ x <= dq[Len(dq)]
               /\ dq[1] \in Range(h)
               /\ dq[Len(dq)] \in Range(h)
               /\ \A t \in 1..(Len(dq) - 1) : dq[t] < dq[t + 1]

\* a blue box absorbed a weight twice: the buffer holds it once
C16_Witness ==
    \E b \in Blue :
        /\ Len(boxes[b].absorbed) >= 3
        /\ Len(boxes[b].absorbed_weights_) = 2
        /\ boxes[b].absorbed[1] = boxes[b].absorbed[2]

\* C17 as stated: a turn changes exactly one box, the selected one, and only
\* the acting player's score.
C17_ExactlyOneBox ==
    [][IsTurn =>
          /\ Stored(boxes'[Selected]) # Stored(boxes[Selected])
          /\ \A b \in 1..4 : b # Selected => boxes'[b] = boxes[b]
          /\ \A p \in {"A", "B"} :
                p # log'[Len(log')].player => players'[p] = players[p]]_vars

\* C17 as amended: a turn changes at most one box, the selected one, and only
\* the acting player's score; the selected box changes whenever the token is
\* positive and can stay as it was when the token is 0.
C17_AtMostOneBox ==
    [][IsTurn =>
          /\ Len(boxes') = 4
          /\ \A b \in 1..4 : b # Selected => boxes'[b] = boxes[b]
          /\ \A p \in {"A", "B"} :
                p # log'[Len(log')].player => players'[p] = players[p]
          /\ players'[log'[Len(log')].player]
                = players[log'[Len(log')].player] + log'[Len(log')].score
          /\ input_weights[i + 1] > 0 =>
                Stored(boxes'[Selected]) # Stored(boxes[Selected])]_vars

\* the last turn put a positive token in the third box and left the others
\* as they were
C17_Witness ==
    /\ Len(log) >= 3
    /\ Last.index = 2
    /\ Last.input > 0
    /\ Stored(LastBox) # Stored(BoxesBeforeLast[3])
    /\ \A b \in {1, 2, 4} : boxes[b] = BoxesBeforeLast[b]
    /\ players["B"] = log[2].score

\* C18: in play the four weights are pairwise distinct in every state, so
\* exactly one box has the minimum weight.
C18_WeightsDistinct ==
    /\ \A a, b \in 1..4 : a # b => boxes[a].weight_ # boxes[b].weight_
    /\ Cardinality({a \in 1..4 :
                       \A b \in 1..4 : boxes[a].weight_ <= boxes[b].weight_}) = 1
    /\ \A b \in 1..4 : boxes[b].weight_ % WeightScale = b - 1

\* all boxes have absorbed and the first one is no longer the lightest
C18_Witness ==
    /\ Len(log) >= 5
    /\ \A b \in 1..4 : boxes[b].absorbed # <<>>
    /\ boxes[1].weight_ > boxes[4].weight_
    /\ boxes[3].weight_ < boxes[2].weight_

\* C19: when all inputs are the same positive integer, the turn at 0-based
\* position t selects box t mod 4: no box is selected twice in a row, A uses
\* only boxes 0 and 2, B only boxes 1 and 3.
C19_RoundRobin ==
    (/\ input_weights # <<>>
     /\ input_weights[1] > 0
     /\ \A t \in 1..Len(input_weights) : input_weights[t] = input_weights[1])
    => /\ \A t \in 1..Len(log) : log[t].index = (t - 1) % 4
       /\ \A t \in 1..(Len(log) - 1) : log[t].index # log[t + 1].index
       /\ \A t \in 1..Len(log) :
             /\ log[t].player = "A" => log[t].index \in {0, 2}
             /\ log[t].player = "B" => log[t].index \in {1, 3}

\* six turns on the token 2: the fifth and sixth come back to boxes 0 and 1
C19_Witness ==
    /\ input_weights = <<2, 2, 2, 2, 2, 2>>
    /\ Len(log) = 6
    /\ log[5].index = 0
    /\ log[6].index = 1
    /\ log[5].player = "A"

====
